---- MODULE Spec2Model ----
(***************************************************************************)
(* Model of the call-graph generator (generate_call_graphs.py) and of the  *)
(* signature/source exporter (extract_functions.py).                       *)
(*                                                                         *)
(* Text is modelled as a sequence of atoms.  An atom is a chunk of         *)
(* characters; what an operation looks for in a text (the separators "."   *)
(* and "/", the suffix ".py", the prefix "/home/ubuntu/") is an atom of    *)
(* its own.  str.split, str.join, str.startswith and str.replace are       *)
(* computed on atom sequences the way Python computes them on characters.  *)
(***************************************************************************)
EXTENDS Integers, Sequences, FiniteSets, TLC

VARIABLES
    \* ---- generate_call_graphs.py : oracle pipeline
    oracle,            \* the environment of the pycg run: how it ends, what is in call_graph.json
    call_graph_data,   \* the value returned by generate_call_graph_data
    function_graph,    \* the graph returned by extract_function_calls
    class_graph,       \* the graph returned by extract_class_calls
    pc,                \* position of the pipeline / of the per-file loop / of the exporter
    stdout,            \* the lines print() has written
    \* ---- generate_call_graphs.py : analyze_python_file_structure
    python_files,      \* the list of paths the loop goes through
    disk,              \* path -> what open() / ast.parse() find there
    idx,               \* number of files the loop has finished with
    combined_function_graph,
    combined_class_graph,
    function_graphs,   \* list of written function-level artifacts
    class_graphs,      \* list of written class-level artifacts
    \* ---- extract_functions.py
    source,            \* the file given to extract_functions: its lines and its syntax tree
    csv_rows           \* the rows written to the CSV file, in writing order

vars == << oracle, call_graph_data, function_graph, class_graph, pc, stdout,
           python_files, disk, idx, combined_function_graph, combined_class_graph,
           function_graphs, class_graphs, source, csv_rows >>

graphVars == << oracle, call_graph_data, function_graph, class_graph >>
mergeVars == << python_files, disk, idx, combined_function_graph, combined_class_graph,
                function_graphs, class_graphs >>
exportVars == << source, csv_rows >>

-----------------------------------------------------------------------------
(* Python strings *)

DOT == "."

StartsWith(s, p) == Len(s) >= Len(p) /\ SubSeq(s, 1, Len(p)) = p

RECURSIVE SplitFrom(_, _, _)
SplitFrom(s, cur, acc) ==
    IF s = << >> THEN Append(acc, cur)
    ELSE IF Head(s) = DOT THEN SplitFrom(Tail(s), << >>, Append(acc, cur))
    ELSE SplitFrom(Tail(s), Append(cur, Head(s)), acc)

\* s.split('.')
Split(s) == SplitFrom(s, << >>, << >>)

RECURSIVE Join(_, _)
\* sep.join(parts)
Join(sep, parts) ==
    IF parts = << >> THEN << >>
    ELSE IF Len(parts) = 1 THEN parts[1]
    ELSE parts[1] \o sep \o Join(sep, Tail(parts))

RECURSIVE Replace(_, _, _)
\* s.replace(old, new), old not empty
Replace(s, old, new) ==
    IF s = << >> THEN << >>
    ELSE IF StartsWith(s, old) THEN new \o Replace(SubSeq(s, Len(old) + 1, Len(s)), old, new)
    ELSE << Head(s) >> \o Replace(Tail(s), old, new)

\* parts[:-1] and parts[:-2]
DropLast(parts, n) == SubSeq(parts, 1, Len(parts) - n)

REPO_DIR == << "/home/ubuntu/", "projects/head-pose-estimation-and-face-landmark" >>

\* REPO_DIR.replace('/home/ubuntu/', '')
CorpusPrefix == Replace(REPO_DIR, << "/home/ubuntu/" >>, << >>)

-----------------------------------------------------------------------------
(* networkx.DiGraph, as far as the program uses it *)

\* nx.DiGraph()
DiGraph == [node |-> << >>, edge |-> {}]

Attrs(label, title, group) == [label |-> label, title |-> title, group |-> group]

\* G.add_node(n, **attr): a node already present has its attribute dict updated
add_node(G, n, attr) ==
    [G EXCEPT !.node = [x \in DOMAIN G.node \cup {n} |->
                           IF x = n
                           THEN (IF n \in DOMAIN G.node THEN attr @@ G.node[n] ELSE attr)
                           ELSE G.node[x]]]

\* G.add_edge(u, v): missing endpoints are created without attributes
add_edge(G, u, v) ==
    [node |-> [x \in DOMAIN G.node \cup {u, v} |->
                  IF x \in DOMAIN G.node THEN G.node[x] ELSE << >>],
     edge |-> G.edge \cup {<< u, v >>}]

has_node(G, n) == n \in DOMAIN G.node

Nodes(G) == DOMAIN G.node
Edges(G) == G.edge

-----------------------------------------------------------------------------
(* generate_call_graph_data *)

NoneValue == [type |-> "NoneType"]
Dict(items) == [type |-> "dict", items |-> items]

\* variant: subprocess.run without check=True, a non-zero exit goes unnoticed
generate_call_graph_data_unchecked(env) ==
    IF env.run = "cannot_start" THEN NoneValue
    ELSE IF env.file.state # "valid" THEN NoneValue
    ELSE Dict(env.file.content)

\* the try block: subprocess.run(check=True), open, json.load
generate_call_graph_data(env) ==
    IF env.run = "nonzero_exit" THEN NoneValue          \* except CalledProcessError
    ELSE IF env.run = "cannot_start" THEN NoneValue     \* except Exception (OSError)
    ELSE IF env.file.state # "valid" THEN NoneValue     \* except Exception (open / json.load)
    ELSE Dict(env.file.content)

OracleDiagnostics(env) ==
    IF env.run = "nonzero_exit"
    THEN << << "Error generating call graph" >>, << "Error output" >> >>
    ELSE IF env.run = "cannot_start" \/ env.file.state # "valid"
    THEN << << "Error processing call graph data" >> >>
    ELSE << >>

-----------------------------------------------------------------------------
(* extract_function_calls *)

InCorpus(name) == StartsWith(name, CorpusPrefix)

\* func.split('.')[-1]
DisplayName(name) == Split(name)[Len(Split(name))]
\* '.'.join(func.split('.')[:-1])
ModuleName(name) == Join(<< DOT >>, DropLast(Split(name), 1))

\* variant: the callee is not filtered
SkipCall_none(call) == FALSE

\* "if not call.startswith(...): continue"
SkipCall(call) == ~ InCorpus(call)

RECURSIVE AddCalls(_, _, _)
\* the inner loop "for call in calls"
AddCalls(G, func, calls) ==
    IF calls = {} THEN G
    ELSE LET call == CHOOSE c \in calls : TRUE
             G1 == IF SkipCall(call) THEN G
                   ELSE add_edge(add_node(G, call,
                                          Attrs(DisplayName(call), call, ModuleName(call))),
                                 func, call)
         IN AddCalls(G1, func, calls \ {call})

RECURSIVE AddFuncs(_, _, _)
\* the outer loop "for func, calls in call_graph_data.items()"
AddFuncs(G, data, keys) ==
    IF keys = {} THEN G
    ELSE LET func == CHOOSE k \in keys : TRUE
             G1 == IF ~ InCorpus(func) THEN G
                   ELSE AddCalls(add_node(G, func,
                                          Attrs(DisplayName(func), func, ModuleName(func))),
                                 func, data[func])
         IN AddFuncs(G1, data, keys \ {func})

extract_function_calls(data) == AddFuncs(DiGraph, data, DOMAIN data)

-----------------------------------------------------------------------------
(* extract_class_calls *)

\* "if len(parts) >= 3"
IsMethodPath(parts) == Len(parts) >= 3

\* first pass: func_to_class
FuncToClass(data) ==
    [func \in {k \in DOMAIN data : InCorpus(k) /\ IsMethodPath(Split(k))} |->
        Join(<< DOT >>, DropLast(Split(func), 1))]

RECURSIVE AddClassNodes(_, _)
\* first pass: the class nodes
AddClassNodes(G, funcs) ==
    IF funcs = {} THEN G
    ELSE LET func == CHOOSE k \in funcs : TRUE
             parts == Split(func)
             class_name == Join(<< DOT >>, DropLast(parts, 1))
             G1 == IF has_node(G, class_name) THEN G
                   ELSE add_node(G, class_name,
                                 Attrs(parts[Len(parts) - 1], class_name,
                                       Join(<< DOT >>, DropLast(parts, 2))))
         IN AddClassNodes(G1, funcs \ {func})

\* variant: calls inside one class are not skipped
SameClass_never(source_class, target_class) == FALSE

\* "if source_class == target_class: continue"
SameClass(source_class, target_class) == source_class = target_class

RECURSIVE AddClassCalls(_, _, _, _)
\* second pass, inner loop
AddClassCalls(G, f2c, source_class, calls) ==
    IF calls = {} THEN G
    ELSE LET call == CHOOSE c \in calls : TRUE
             G1 == IF call \notin DOMAIN f2c THEN G
                   ELSE IF SameClass(source_class, f2c[call]) THEN G
                   ELSE add_edge(G, source_class, f2c[call])
         IN AddClassCalls(G1, f2c, source_class, calls \ {call})

RECURSIVE AddClassEdges(_, _, _, _)
\* second pass, outer loop
AddClassEdges(G, data, f2c, keys) ==
    IF keys = {} THEN G
    ELSE LET func == CHOOSE k \in keys : TRUE
             G1 == IF func \notin DOMAIN f2c THEN G
                   ELSE AddClassCalls(G, f2c, f2c[func], data[func])
         IN AddClassEdges(G1, data, f2c, keys \ {func})

extract_class_calls(data) ==
    LET f2c == FuncToClass(data)
    IN AddClassEdges(AddClassNodes(DiGraph, DOMAIN f2c), data, f2c, DOMAIN data)

-----------------------------------------------------------------------------
(* The syntax tree ast.parse returns, as far as the program reads it.      *)
(* A tree is the sequence of its compound statements in document order;    *)
(* each has a kind, a name, its parameters and its first and last line.    *)
(* Statement s is inside statement t when the lines of s lie inside the    *)
(* lines of t, so the tree is read off the line spans.  Index 0 is the     *)
(* Module node.                                                            *)

Max(S) == CHOOSE x \in S : \A y \in S : y <= x

\* the innermost statement around statement j, 0 when j is at top level
Parent(nodes, j) ==
    LET around == {i \in 1..(j - 1) : nodes[i].end_lineno >= nodes[j].lineno}
    IN IF around = {} THEN 0 ELSE Max(around)

\* ast.iter_child_nodes: the statements directly inside node i, in order
Children(nodes, i) ==
    SelectSeq([j \in 1..Len(nodes) |-> j], LAMBDA j : Parent(nodes, j) = i)

RECURSIVE WalkFrom(_, _, _)
\* ast.walk: todo = deque([node]); node = todo.popleft(); todo.extend(children)
WalkFrom(nodes, todo, acc) ==
    IF todo = << >> THEN acc
    ELSE WalkFrom(nodes, Tail(todo) \o Children(nodes, Head(todo)), Append(acc, Head(todo)))

\* the indices of the nodes in the order ast.walk(tree) yields them
walk(nodes) == WalkFrom(nodes, << 0 >>, << >>)

\* isinstance(node, ast.FunctionDef)
IsFunctionDef(nodes, i) == i # 0 /\ nodes[i].kind = "FunctionDef"

-----------------------------------------------------------------------------
(* extract_functions *)

NoArg == << >>

RECURSIVE KwOnlyItems(_)
\* arg.arg + "=?" for each keyword-only parameter
KwOnlyItems(kwonlyargs) ==
    IF kwonlyargs = << >> THEN << >>
    ELSE << Head(kwonlyargs) \o << "=?" >> >> \o KwOnlyItems(Tail(kwonlyargs))

\* arg_names, lines 28-40
ArgNames(args) ==
    args.args
    \o (IF args.vararg # NoArg THEN << << "*" >> \o args.vararg >> ELSE << >>)
    \o KwOnlyItems(args.kwonlyargs)
    \o (IF args.kwarg # NoArg THEN << << "**" >> \o args.kwarg >> ELSE << >>)

\* f"{func_name}({', '.join(arg_names)})"
FunctionSignature(node) ==
    node.name \o << "(" >> \o Join(<< ", " >>, ArgNames(node.args)) \o << ")" >>

\* seq[start:end] for 0 <= start, 0 <= end
PySlice(seq, start, end) ==
    SubSeq(seq, start + 1, IF end < Len(seq) THEN end ELSE Len(seq))

\* variant: the 1-indexed line number used as the 0-indexed slice start
SliceStart_lineno(node) == node.lineno

\* start = node.lineno - 1
SliceStart(node) == node.lineno - 1
\* end = node.end_lineno
SliceEnd(node) == node.end_lineno

\* "".join(source_lines[start:end])
FuncSrc(lines, node) == Join(<< >>, PySlice(lines, SliceStart(node), SliceEnd(node)))

CsvHeader == << << "function_signature" >>, << "source_code" >> >>

RECURSIVE WriteRows(_, _, _)
\* the loop "for node in ast.walk(tree)", the rows it writes
WriteRows(src, order, rows) ==
    IF order = << >> THEN rows
    ELSE LET i == Head(order)
         IN IF IsFunctionDef(src.nodes, i)
            THEN WriteRows(src, Tail(order),
                           Append(rows, << FunctionSignature(src.nodes[i]),
                                           FuncSrc(src.lines, src.nodes[i]) >>))
            ELSE WriteRows(src, Tail(order), rows)

RECURSIVE PrintLineCounts(_, _, _)
\* print(f"{end-start+1} lines in {func_name}")
PrintLineCounts(src, order, out) ==
    IF order = << >> THEN out
    ELSE LET i == Head(order)
             n == src.nodes[i]
         IN IF IsFunctionDef(src.nodes, i)
            THEN PrintLineCounts(src, Tail(order),
                     Append(out, << ToString(SliceEnd(n) - SliceStart(n) + 1),
                                    " lines in " >> \o n.name))
            ELSE PrintLineCounts(src, Tail(order), out)

-----------------------------------------------------------------------------
(* analyze_python_file_structure: one file of the loop *)

SLASH == "/"

OUTPUT_DIR == << "/home/ubuntu/call_graphs" >>

RECURSIVE basename(_)
\* os.path.basename(path): what follows the last "/"
basename(path) ==
    IF \E k \in 1..Len(path) : path[k] = SLASH THEN basename(Tail(path)) ELSE path

\* os.path.join(a, b)
PathJoin(a, b) == a \o << SLASH >> \o b

RECURSIVE NamesOf(_, _, _)
\* the loop over ast.walk(tree) that fills classes / functions (lines 399-403)
NamesOf(nodes, order, kind) ==
    IF order = << >> THEN << >>
    ELSE (IF Head(order) # 0 /\ nodes[Head(order)].kind = kind
          THEN << nodes[Head(order)].name >> ELSE << >>)
         \o NamesOf(nodes, Tail(order), kind)

RECURSIVE AddFileNodes(_, _, _)
\* "for func in functions: combined_function_graph.add_node(func, ...)" and
\* the same loop over classes
AddFileNodes(G, names, file_name) ==
    IF names = << >> THEN G
    ELSE AddFileNodes(add_node(G, Head(names),
                               Attrs(Head(names), file_name \o << ":" >> \o Head(names),
                                     file_name)),
                      Tail(names), file_name)

\* hasattr(node, 'parent_func')
HasParentFunc(call) == "parent_func" \in DOMAIN call

InList(x, seq) == \E k \in 1..Len(seq) : seq[k] = x

RECURSIVE AddInferredEdges(_, _, _)
\* the loop over ast.Call nodes (lines 418-424)
AddInferredEdges(G, calls, functions) ==
    IF calls = << >> THEN G
    ELSE LET node == Head(calls)
             G1 == IF /\ "func_id" \in DOMAIN node
                      /\ InList(node.func_id, functions)
                      /\ HasParentFunc(node)
                      /\ InList(node.parent_func, functions)
                   THEN add_edge(G, node.parent_func, node.func_id)
                   ELSE G
         IN AddInferredEdges(G1, Tail(calls), functions)

\* open() and ast.parse() both succeed
Parses(file) == file.state = "ok"

\* variant: the except clause prints nothing
ErrorDiagnostic_silent(file_name) == << >>

\* print(f"Error analyzing {file_name}: {e}")
ErrorDiagnostic(file_name) == << << "Error analyzing " >> \o file_name >>

\* variant: the try statement around the whole loop, an error ends the loop
AfterExcept_abort(i, n) == n

\* the except clause is inside the for loop: the loop goes on with the next file
AfterExcept(i, n) == i + 1

\* the two combined graphs after the body of the loop has run on one file
AnalyzeFile(fn, cls, path, file) ==
    IF ~ Parses(file) THEN [fn |-> fn, cls |-> cls]
    ELSE LET file_name == basename(path)
             order == walk(file.nodes)
             functions == NamesOf(file.nodes, order, "FunctionDef")
             classes == NamesOf(file.nodes, order, "ClassDef")
         IN [fn |-> AddInferredEdges(AddFileNodes(fn, functions, file_name),
                                     file.calls, functions),
             cls |-> AddFileNodes(cls, classes, file_name)]

RECURSIVE FoldFiles(_, _, _, _, _)
\* the combined graphs after the whole loop "for python_file in python_files"
FoldFiles(files, fs, i, fn, cls) ==
    IF i >= Len(files) THEN [fn |-> fn, cls |-> cls]
    ELSE LET path == files[i + 1]
             g == AnalyzeFile(fn, cls, path, fs[path])
         IN FoldFiles(files, fs,
                      IF Parses(fs[path]) THEN i + 1 ELSE AfterExcept(i, Len(files)),
                      g.fn, g.cls)

-----------------------------------------------------------------------------
(* The oracle pipeline: generate_call_graph_data, then the two extractions *)

MaxKeys == 2
MaxEdges == 2

R == "projects/head-pose-estimation-and-face-landmark"

\* qualified names the oracle may report
FQNS == { << R, DOT, "C", DOT, "m" >>,
          << R, DOT, "C", DOT, "n" >>,
          << R, DOT, "D", DOT, "n" >>,
          << R, DOT, "f" >>,
          << "numpy", DOT, "linalg", DOT, "norm" >> }

SubsetsUpTo(S, n) == {x \in SUBSET S : Cardinality(x) <= n}

\* caller -> set of callees, from the set of reported calls and the caller keys
Mapping(keys, calls) == [k \in keys |-> {c[2] : c \in {d \in calls : d[1] = k}}]

OracleMappings ==
    UNION { { Mapping(keys, calls) : calls \in SubsetsUpTo(keys \X FQNS, MaxEdges) } :
            keys \in SubsetsUpTo(FQNS, MaxKeys) }

OracleFiles ==
    { [state |-> "missing"], [state |-> "malformed"] }
    \cup { [state |-> "valid", content |-> m] : m \in OracleMappings }

IdleGraph == /\ oracle = [run |-> "ok", file |-> [state |-> "missing"]]
             /\ call_graph_data = NoneValue
             /\ function_graph = NoneValue
             /\ class_graph = NoneValue
IdleMerge == /\ python_files = << >>
             /\ disk = << >>
             /\ idx = 0
             /\ combined_function_graph = DiGraph
             /\ combined_class_graph = DiGraph
             /\ function_graphs = << >>
             /\ class_graphs = << >>
IdleExport == /\ source = [ok |-> FALSE]
              /\ csv_rows = << >>

InitGraph ==
    /\ oracle \in [run : {"ok", "nonzero_exit", "cannot_start"}, file : OracleFiles]
    /\ call_graph_data = NoneValue
    /\ function_graph = NoneValue
    /\ class_graph = NoneValue
    /\ pc = "start"
    /\ stdout = << >>
    /\ IdleMerge
    /\ IdleExport

GenerateCallGraphData ==
    /\ pc = "start"
    /\ call_graph_data' = generate_call_graph_data(oracle)
    /\ stdout' = stdout \o OracleDiagnostics(oracle)
    /\ pc' = "generated"
    /\ UNCHANGED << oracle, function_graph, class_graph >>
    /\ UNCHANGED mergeVars
    /\ UNCHANGED exportVars

ExtractFunctionCalls ==
    /\ pc = "generated"
    /\ call_graph_data.type = "dict"
    /\ function_graph = NoneValue
    /\ function_graph' = extract_function_calls(call_graph_data.items)
    /\ UNCHANGED << oracle, call_graph_data, class_graph, pc, stdout >>
    /\ UNCHANGED mergeVars
    /\ UNCHANGED exportVars

ExtractClassCalls ==
    /\ pc = "generated"
    /\ call_graph_data.type = "dict"
    /\ class_graph = NoneValue
    /\ class_graph' = extract_class_calls(call_graph_data.items)
    /\ UNCHANGED << oracle, call_graph_data, function_graph, pc, stdout >>
    /\ UNCHANGED mergeVars
    /\ UNCHANGED exportVars

NextGraph == GenerateCallGraphData \/ ExtractFunctionCalls \/ ExtractClassCalls

SpecGraph == InitGraph /\ [][NextGraph]_vars

-----------------------------------------------------------------------------
(* The exporter: extract_functions on one source file *)

MaxDefs == 3
MaxLines == 4

Arguments(posonlyargs, args, vararg, kwonlyargs, kwarg) ==
    [posonlyargs |-> posonlyargs, args |-> args, vararg |-> vararg,
     kwonlyargs |-> kwonlyargs, kwarg |-> kwarg]

NoArguments == Arguments(<< >>, << >>, NoArg, << >>, NoArg)

\* the compound statements a file may hold
Statements ==
    { \* def outer(x, *args, k=1, **kw)
      [kind |-> "FunctionDef", name |-> << "outer" >>,
       args |-> Arguments(<< >>, << << "x" >> >>, << "args" >>, << << "k" >> >>, << "kw" >>)],
      \* def f(a, /, b)
      [kind |-> "FunctionDef", name |-> << "f" >>,
       args |-> Arguments(<< << "a" >> >>, << << "b" >> >>, NoArg, << >>, NoArg)],
      \* def m(self, y, *, k1, k2)
      [kind |-> "FunctionDef", name |-> << "m" >>,
       args |-> Arguments(<< >>, << << "self" >>, << "y" >> >>, NoArg,
                          << << "k1" >>, << "k2" >> >>, NoArg)],
      \* class C
      [kind |-> "ClassDef", name |-> << "C" >>, args |-> NoArguments],
      \* if / for / while / with
      [kind |-> "If", name |-> << >>, args |-> NoArguments] }

\* the k-th smallest element of a set of numbers
Kth(S, k) == CHOOSE x \in S : Cardinality({y \in S : y < x}) = k - 1

\* statements start on different lines, and two statements are either apart
\* or one inside the other
WellNested(starts, ends) ==
    \A j \in DOMAIN ends :
        /\ starts[j] <= ends[j]
        /\ \A i \in 1..(j - 1) : ends[i] < starts[j] \/ ends[j] <= ends[i]

Tree(stmts, starts, ends) ==
    [j \in DOMAIN stmts |->
        [kind |-> stmts[j].kind, name |-> stmts[j].name, args |-> stmts[j].args,
         lineno |-> starts[j], end_lineno |-> ends[j]]]

\* f.readlines(): line k of the file, one atom per line
SourceLines(n) == [k \in 1..n |-> << "line " \o ToString(k) >>]

InitExport ==
    /\ \/ source = [ok |-> FALSE, lines |-> SourceLines(MaxLines), nodes |-> << >>]
       \/ \E n \in 0..MaxDefs :
            \E first \in { S \in SUBSET (1..MaxLines) : Cardinality(S) = n } :
              \E ends \in [1..n -> 1..MaxLines] :
                /\ WellNested([j \in 1..n |-> Kth(first, j)], ends)
                /\ \E stmts \in [1..n -> Statements] :
                      source = [ok |-> TRUE, lines |-> SourceLines(MaxLines),
                                nodes |-> Tree(stmts, [j \in 1..n |-> Kth(first, j)], ends)]
    /\ csv_rows = << >>
    /\ pc = "start"
    /\ stdout = << >>
    /\ IdleGraph
    /\ IdleMerge

\* extract_functions(source_path, csv_path) on a file that parses
ExtractFunctions ==
    /\ pc = "start"
    /\ source.ok
    /\ csv_rows' = WriteRows(source, walk(source.nodes), << CsvHeader >>)
    /\ stdout' = PrintLineCounts(source, walk(source.nodes), stdout)
    /\ pc' = "done"
    /\ UNCHANGED source
    /\ UNCHANGED graphVars
    /\ UNCHANGED mergeVars

\* ast.parse raises before the CSV file is opened
ExtractFunctionsSyntaxError ==
    /\ pc = "start"
    /\ ~ source.ok
    /\ pc' = "raised"
    /\ UNCHANGED << source, csv_rows, stdout >>
    /\ UNCHANGED graphVars
    /\ UNCHANGED mergeVars

NextExport == ExtractFunctions \/ ExtractFunctionsSyntaxError

SpecExport == InitExport /\ [][NextExport]_vars

-----------------------------------------------------------------------------
(* The per-file fold: analyze_python_file_structure *)

MaxFiles == 2

REPO == "/home/ubuntu/projects/head-pose-estimation-and-face-landmark"

\* paths of the list python_files (three of its five entries)
PythonFilePaths ==
    { << REPO, SLASH, "evaluate_48", ".py" >>,
      << REPO, SLASH, "facePose", ".py" >>,
      << REPO, SLASH, "librect", ".py" >> }

Stmt(kind, name, lineno, end_lineno) ==
    [kind |-> kind, name |-> name, args |-> NoArguments,
     lineno |-> lineno, end_lineno |-> end_lineno]

\* what a path of the list may hold: nothing readable, text that does not
\* parse, or a module with its statements and its ast.Call nodes
FileContents ==
    { [state |-> "unreadable", nodes |-> << >>, calls |-> << >>],
      [state |-> "syntax_error", nodes |-> << >>, calls |-> << >>],
      \* an empty module
      [state |-> "ok", nodes |-> << >>, calls |-> << >>],
      \* def main(): helper() / def helper(): pass
      [state |-> "ok",
       nodes |-> << Stmt("FunctionDef", << "main" >>, 1, 2),
                    Stmt("FunctionDef", << "helper" >>, 3, 4) >>,
       calls |-> << [func_id |-> << "helper" >>] >>],
      \* class C: def main(self): self.run() / def run(self): main()
      [state |-> "ok",
       nodes |-> << Stmt("ClassDef", << "C" >>, 1, 4),
                    Stmt("FunctionDef", << "main" >>, 2, 3),
                    Stmt("FunctionDef", << "run" >>, 4, 4) >>,
       calls |-> << [func_attr |-> << "run" >>], [func_id |-> << "main" >>] >>] }

IsInjective(f) == \A a, b \in DOMAIN f : f[a] = f[b] => a = b

InitMerge ==
    /\ \E n \in 1..MaxFiles :
          /\ python_files \in { f \in [1..n -> PythonFilePaths] : IsInjective(f) }
          /\ disk \in [{python_files[k] : k \in 1..n} -> FileContents]
    /\ idx = 0
    /\ combined_function_graph = DiGraph
    /\ combined_class_graph = DiGraph
    /\ function_graphs = << >>
    /\ class_graphs = << >>
    /\ pc = "loop"
    /\ stdout = << >>
    /\ IdleGraph
    /\ IdleExport

ArtifactPath(file_name, suffix) ==
    PathJoin(OUTPUT_DIR, Replace(file_name, << ".py" >>, << >>) \o << suffix >>)

\* one pass of the body of "for python_file in python_files" (lines 384-440);
\* render says whether create_interactive_graph can write its file
AnalyzeNextFile ==
    /\ pc = "loop"
    /\ idx < Len(python_files)
    /\ \E render \in {"ok", "function_fails", "class_fails"} :
        LET path == python_files[idx + 1]
            file == disk[path]
            file_name == basename(path)
            g == AnalyzeFile(combined_function_graph, combined_class_graph, path, file)
            order == walk(file.nodes)
            functions == NamesOf(file.nodes, order, "FunctionDef")
            classes == NamesOf(file.nodes, order, "ClassDef")
            function_raises == functions # << >> /\ render = "function_fails"
            class_raises == ~ function_raises /\ classes # << >> /\ render = "class_fails"
            raised == ~ Parses(file) \/ function_raises \/ class_raises
            function_saved == Parses(file) /\ functions # << >> /\ ~ function_raises
            class_saved == Parses(file) /\ classes # << >> /\ ~ function_raises /\ ~ class_raises
        IN /\ combined_function_graph' = g.fn
           /\ combined_class_graph' = g.cls
           /\ function_graphs' =
                 IF function_saved
                 THEN Append(function_graphs, ArtifactPath(file_name, "_function.html"))
                 ELSE function_graphs
           /\ class_graphs' =
                 IF class_saved
                 THEN Append(class_graphs, ArtifactPath(file_name, "_class.html"))
                 ELSE class_graphs
           /\ stdout' = stdout
                 \o << << "Analyzing " >> \o file_name >>
                 \o (IF function_saved
                     THEN << << "  Function call graph saved to " >>
                                \o ArtifactPath(file_name, "_function.html") >>
                     ELSE << >>)
                 \o (IF class_saved
                     THEN << << "  Class call graph saved to " >>
                                \o ArtifactPath(file_name, "_class.html") >>
                     ELSE << >>)
                 \o (IF raised THEN ErrorDiagnostic(file_name) ELSE << >>)
           /\ idx' = IF raised THEN AfterExcept(idx, Len(python_files)) ELSE idx + 1
           /\ pc' = IF idx' >= Len(python_files) THEN "save" ELSE "loop"
    /\ UNCHANGED << python_files, disk >>
    /\ UNCHANGED graphVars
    /\ UNCHANGED exportVars

\* "Save combined graphs" and the return (lines 442-455); an error of
\* create_interactive_graph is not caught here
SaveCombinedGraphs ==
    /\ pc = "save"
    /\ \E render \in {"ok", "function_fails", "class_fails"} :
        LET function_raises == Nodes(combined_function_graph) # {} /\ render = "function_fails"
            class_raises == Nodes(combined_class_graph) # {} /\ render = "class_fails"
            function_saved == Nodes(combined_function_graph) # {} /\ ~ function_raises
            class_saved == Nodes(combined_class_graph) # {} /\ ~ function_raises /\ ~ class_raises
        IN /\ function_graphs' =
                 IF function_saved
                 THEN Append(function_graphs, PathJoin(OUTPUT_DIR, << "combined_function.html" >>))
                 ELSE function_graphs
           /\ class_graphs' =
                 IF class_saved
                 THEN Append(class_graphs, PathJoin(OUTPUT_DIR, << "combined_class.html" >>))
                 ELSE class_graphs
           /\ stdout' = stdout
                 \o (IF function_saved
                     THEN << << "Combined function call graph saved to " >>
                                \o PathJoin(OUTPUT_DIR, << "combined_function.html" >>) >>
                     ELSE << >>)
                 \o (IF class_saved
                     THEN << << "Combined class call graph saved to " >>
                                \o PathJoin(OUTPUT_DIR, << "combined_class.html" >>) >>
                     ELSE << >>)
           /\ pc' = IF function_raises \/ class_raises THEN "raised" ELSE "returned"
    /\ UNCHANGED << python_files, disk, idx, combined_function_graph, combined_class_graph >>
    /\ UNCHANGED graphVars
    /\ UNCHANGED exportVars

NextMerge == AnalyzeNextFile \/ SaveCombinedGraphs

SpecMerge == InitMerge /\ [][NextMerge]_vars

-----------------------------------------------------------------------------
(* Properties of the oracle pipeline, checked under SpecGraph *)

Computed(G) == G # NoneValue

\* the owner of a qualified name: the name without its last segment
OwnerOf(name) == Join(<< DOT >>, SubSeq(Split(name), 1, Len(Split(name)) - 1))
Segments(name) == Len(Split(name))

\* C1: every edge of the graph returned by extract_function_calls has a caller
\* and a callee that start with the corpus-root prefix.
C1_FilteringInvariant ==
    Computed(function_graph) =>
        \A e \in Edges(function_graph) :
            /\ StartsWith(e[1], << R >>)
            /\ StartsWith(e[2], << R >>)

\* C1 witness: the oracle reported an in-corpus caller with an out-of-corpus
\* callee and an in-corpus callee, and the function graph has been built.
C1_Witness ==
    /\ Computed(function_graph)
    /\ Edges(function_graph) # {}
    /\ \E k \in DOMAIN call_graph_data.items :
          /\ StartsWith(k, << R >>)
          /\ \E c \in call_graph_data.items[k] : ~ StartsWith(c, << R >>)

OwnerProjection(edges) ==
    { << OwnerOf(e[1]), OwnerOf(e[2]) >> :
        e \in { d \in edges : /\ Segments(d[1]) >= 3
                              /\ Segments(d[2]) >= 3
                              /\ OwnerOf(d[1]) # OwnerOf(d[2]) } }

\* C2: the edge set of the class graph equals the owner projection of the edge
\* set of the function graph built from the same oracle mapping, whether or
\* not a callee is itself a caller key of the mapping.
C2_ClassGraphIsOwnerProjection ==
    (Computed(function_graph) /\ Computed(class_graph)) =>
        Edges(class_graph) = OwnerProjection(Edges(function_graph))

\* C3: the class graph has no edge (X, X), and each of its edges comes from a
\* reported call whose caller and callee both have at least 3 segments and
\* different owners; a call with a shorter endpoint produces no class edge.
C3_NoSelfLoopNoBareFunction ==
    Computed(class_graph) =>
        \A e \in Edges(class_graph) :
            /\ e[1] # e[2]
            /\ \E k \in DOMAIN call_graph_data.items :
                  \E c \in call_graph_data.items[k] :
                      /\ Segments(k) >= 3 /\ Segments(c) >= 3
                      /\ OwnerOf(k) = e[1] /\ OwnerOf(c) = e[2]

\* C3 witness: the oracle reported a call between two methods of one class,
\* both of them caller keys, and the class graph has been built.
C3_Witness ==
    /\ Computed(class_graph)
    /\ \E k \in DOMAIN call_graph_data.items :
          \E c \in call_graph_data.items[k] \cap DOMAIN call_graph_data.items :
              /\ k # c
              /\ Segments(k) >= 3 /\ Segments(c) >= 3
              /\ StartsWith(k, << R >>) /\ StartsWith(c, << R >>)
              /\ OwnerOf(k) = OwnerOf(c)

OracleSucceeded == oracle.run = "ok" /\ oracle.file.state = "valid"

\* C9: once generate_call_graph_data has returned, it has returned None
\* whenever the oracle did not exit with status 0 or its output file could not
\* be read and decoded, and it has returned a mapping, the whole decoded
\* output, only when the oracle succeeded.
C9_OracleFailureReturnsNone ==
    pc = "generated" =>
        /\ ~ OracleSucceeded => call_graph_data = NoneValue
        /\ call_graph_data # NoneValue =>
              /\ OracleSucceeded
              /\ call_graph_data = Dict(oracle.file.content)
        /\ ~ OracleSucceeded => (~ Computed(function_graph) /\ ~ Computed(class_graph))

\* C9 witness: the oracle exited with a non-zero status while a decodable
\* output file was on disk, and the function returned None.
C9_Witness ==
    /\ pc = "generated"
    /\ oracle.run = "nonzero_exit"
    /\ oracle.file.state = "valid"
    /\ oracle.file.content # << >>
    /\ call_graph_data = NoneValue

-----------------------------------------------------------------------------
(* Properties of the exporter, checked under SpecExport *)

\* the rows after the header row
DataRows == Tail(csv_rows)

FunctionDefs == {i \in 1..Len(source.nodes) : source.nodes[i].kind = "FunctionDef"}

\* the record of one definition: its signature and its source text
RecordOf(i) == << FunctionSignature(source.nodes[i]), FuncSrc(source.lines, source.nodes[i]) >>

RECURSIVE RecordsFrom(_)
\* the records of the function definitions from statement i on, by first line
RecordsFrom(i) ==
    IF i > Len(source.nodes) THEN << >>
    ELSE (IF i \in FunctionDefs THEN << RecordOf(i) >> ELSE << >>) \o RecordsFrom(i + 1)

\* C6: the records are written in document order: one record per function
\* definition, a definition with an earlier first line written earlier.
C6_DocumentOrder ==
    pc = "done" => DataRows = RecordsFrom(1)

\* the parameter list as the claim words it: the positional parameter names
\* in declaration order, "*" and the variadic-positional name, each
\* keyword-only name followed by "=?", "**" and the variadic-keyword name
ClaimedItems(args) ==
    args.posonlyargs \o args.args
    \o (IF args.vararg # NoArg THEN << << "*" >> \o args.vararg >> ELSE << >>)
    \o [k \in 1..Len(args.kwonlyargs) |-> args.kwonlyargs[k] \o << "=?" >>]
    \o (IF args.kwarg # NoArg THEN << << "**" >> \o args.kwarg >> ELSE << >>)

RECURSIVE CommaSeparated(_)
CommaSeparated(items) ==
    IF items = << >> THEN << >>
    ELSE Head(items) \o (IF Len(items) > 1 THEN << ", " >> ELSE << >>)
                     \o CommaSeparated(Tail(items))

ClaimedSignature(node) ==
    node.name \o << "(" >> \o CommaSeparated(ClaimedItems(node.args)) \o << ")" >>

\* C7: the signature written for every function definition is its name, "(",
\* the items of its parameter list joined by ", ", and ")", the items being all
\* positional parameters, then *vararg, then the keyword-only names with "=?",
\* then **kwarg.
C7_SignatureFormat ==
    pc = "done" =>
        \A i \in FunctionDefs :
            \E r \in 1..Len(DataRows) :
                /\ DataRows[r][2] = FuncSrc(source.lines, source.nodes[i])
                /\ DataRows[r][1] = ClaimedSignature(source.nodes[i])

\* the lines of the file from line a through line b, concatenated
LinesThrough(a, b) == [k \in 1..(b - a + 1) |-> source.lines[a + k - 1][1]]

\* C8: every function definition, nested or not, has a record, and the source
\* text of the record is exactly the file lines from the first line of the
\* definition through its last line, (end - start + 1) lines.
C8_SpanCorrectness ==
    pc = "done" =>
        /\ Len(DataRows) = Cardinality(FunctionDefs)
        /\ \A i \in FunctionDefs :
             \E r \in 1..Len(DataRows) :
                /\ DataRows[r][2] =
                      LinesThrough(source.nodes[i].lineno, source.nodes[i].end_lineno)
                /\ Len(DataRows[r][2]) =
                      source.nodes[i].end_lineno - source.nodes[i].lineno + 1

\* C8 witness: a function of several lines holds a nested function that ends
\* before it does, and both records have been written.
C8_Witness ==
    /\ pc = "done"
    /\ \E i, j \in FunctionDefs :
          /\ source.nodes[i].lineno < source.nodes[j].lineno
          /\ source.nodes[j].lineno < source.nodes[j].end_lineno
          /\ source.nodes[j].end_lineno < source.nodes[i].end_lineno
    /\ Len(DataRows) >= 2

-----------------------------------------------------------------------------
(* Properties of the per-file fold, checked under SpecMerge *)

\* C4: a node already in a combined graph keeps the label, title and group of
\* its first insertion whatever a later file inserts under the same name.
C4_FirstInsertionWins ==
    [][ /\ \A n \in Nodes(combined_function_graph) :
              combined_function_graph'.node[n] = combined_function_graph.node[n]
        /\ \A n \in Nodes(combined_class_graph) :
              combined_class_graph'.node[n] = combined_class_graph.node[n] ]_vars

\* the orders in which the files of the list can be processed
Orders ==
    { [k \in 1..Len(python_files) |-> python_files[q[k]]] :
        q \in { f \in [1..Len(python_files) -> 1..Len(python_files)] : IsInjective(f) } }

\* C5: when the loop has ended, the node sets and the edge sets of the two
\* combined graphs are those the loop produces for every other order of the
\* same files.
C5_MergeOrderIndependent ==
    pc # "loop" =>
        \A files \in Orders :
            LET other == FoldFiles(files, disk, 0, DiGraph, DiGraph)
            IN /\ Nodes(other.fn) = Nodes(combined_function_graph)
               /\ Edges(other.fn) = Edges(combined_function_graph)
               /\ Nodes(other.cls) = Nodes(combined_class_graph)
               /\ Edges(other.cls) = Edges(combined_class_graph)

\* C5 witness: the loop has ended over two files of different content, both
\* parsed, that define different sets of functions with one name in common,
\* and the combined graphs hold functions and a class.
C5_Witness ==
    /\ pc = "save"
    /\ Len(python_files) >= 2
    /\ Parses(disk[python_files[1]]) /\ Parses(disk[python_files[2]])
    /\ disk[python_files[1]] # disk[python_files[2]]
    /\ Cardinality(Nodes(combined_function_graph)) >= 3
    /\ Nodes(combined_class_graph) # {}

Failing(k) == k \in 1..Len(python_files) /\ disk[python_files[k]].state # "ok"

\* C10: the pass of the loop over a file that cannot be read or parsed changes
\* neither combined graph nor either result list, prints a diagnostic naming
\* the file, and moves on to the next file of the list; a later file that
\* parses still has its functions and classes added.
C10_ParseFailureSkipsFile ==
    [][ /\ (pc = "loop" /\ Failing(idx + 1)) =>
              /\ combined_function_graph' = combined_function_graph
              /\ combined_class_graph' = combined_class_graph
              /\ function_graphs' = function_graphs
              /\ class_graphs' = class_graphs
              /\ Len(stdout') > Len(stdout)
              /\ stdout'[Len(stdout')] =
                     << "Error analyzing " >> \o SubSeq(python_files[idx + 1], 3, 4)
              /\ idx' = idx + 1
              /\ pc' = IF idx + 1 < Len(python_files) THEN "loop" ELSE "save"
        /\ (pc = "loop" /\ ~ Failing(idx + 1) /\ \E k \in 1..idx : Failing(k)) =>
              /\ \A i \in 1..Len(disk[python_files[idx + 1]].nodes) :
                    LET node == disk[python_files[idx + 1]].nodes[i]
                    IN /\ node.kind = "FunctionDef" =>
                             node.name \in Nodes(combined_function_graph')
                       /\ node.kind = "ClassDef" =>
                             node.name \in Nodes(combined_class_graph')
      ]_vars

\* C10 witness: the first file of the list could not be parsed, the loop went
\* on, and the second file has put nodes into the combined function graph.
C10_Witness ==
    /\ idx = 2
    /\ Failing(1)
    /\ ~ Failing(2)
    /\ Nodes(combined_function_graph) # {}
    /\ \E k \in 1..Len(stdout) : stdout[k][1] = "Error analyzing "

====
